---- MODULE Spec2Model ----
(***************************************************************************)
(* A model of circular_deque<Type, capacity> and circular_deque_iterator   *)
(* (src/circular_deque.h).                                                 *)
(*                                                                         *)
(* The element type is an integer type: the array is value-initialised to  *)
(* 0 (std::array<value_type, N> array {}), and the explicit destructor     *)
(* call array[i].~value_type() is a pseudo-destructor call that leaves the *)
(* stored value as it is.  Which slots an operation runs the destructor on *)
(* is recorded in lastOp.destroyed, in the order of the calls.             *)
(*                                                                         *)
(* The build is a debug build (NDEBUG not defined).  A call whose assert    *)
(* holds is the action of that name; a call whose assert fails is the      *)
(* action <name>_asserts, which ends the program (outcome becomes          *)
(* "assertion_failed").                                                    *)
(***************************************************************************)
EXTENDS Integers, Sequences, FiniteSets

\* The largest capacity_value the deque is instantiated with.
MaxCapacity == 4

\* Elements are drawn from 0..MaxValue; 0 is also the value-initialised slot.
MaxValue == 1

\* The number of push calls between two fresh/cleared states is capped.
MaxPushes == 6

VARIABLES
    capacity,     \* template parameter capacity_value
    count,        \* size_type count
    back_index,   \* size_type back_index
    front_index,  \* size_type front_index
    array,        \* std::array<value_type, capacity_value> array
    ref,          \* history: the reference unbounded deque, front to back
    pushes,       \* history: push calls since construction or the last clear
    pops,         \* history: pop calls since construction or the last clear
    lastOp,       \* history: the last call, its argument and destructor calls
    outcome,      \* "ok" while the program runs, else how it ended
    iters,        \* two circular_deque_iterator objects of the caller, a and b
    fresh         \* history: a newly constructed deque given the calls since the last clear

vars == <<capacity, count, back_index, front_index, array, ref, pushes, pops, lastOp,
          outcome, iters, fresh>>

\* The data members of the deque.
deque_vars == <<count, back_index, front_index, array>>

Values == 0..MaxValue

Capacities == 2..MaxCapacity

\* static constexpr size_type first_index = 0;
first_index == 0

\* static constexpr size_type last_index = (capacity - 1);
last_index == capacity - 1

\* static constexpr size_type initial_back_index = (capacity / 2);
initial_back_index == capacity \div 2

\* static constexpr size_type initial_front_index = ((capacity / 2) - 1);
initial_front_index == (capacity \div 2) - 1

\* The value of a value-initialised slot.
default_value == 0

----------------------------------------------------------------------------
\* The static index helpers.

previous_back_index(i) == IF i > first_index THEN i - 1 ELSE last_index

mutant_next_back_index(i) == IF i < last_index THEN i + 1 ELSE last_index

next_back_index(i) == IF i < last_index THEN i + 1 ELSE first_index

previous_front_index(i) == IF i < last_index THEN i + 1 ELSE first_index

mutant_next_front_index(i) == IF i > first_index THEN i - 1 ELSE first_index

next_front_index(i) == IF i > first_index THEN i - 1 ELSE last_index

\* The helpers applied to the cursors.
mutant_begin_index == front_index

begin_index == previous_front_index(front_index)

end_index == back_index

----------------------------------------------------------------------------
\* Queries.

max_size == capacity

size == count

empty == (size = 0)

full == (size = max_size)

\* back() and front(): the slot they refer to, and its content.
mutant_back_slot == back_index

back_slot == previous_back_index(back_index)

front_slot == previous_front_index(front_index)

back == array[back_slot]

front == array[front_slot]

----------------------------------------------------------------------------
\* The indices a loop  for (index = lo; index < hi; ++index)  visits, in order.
RECURSIVE for_range(_, _)
for_range(lo, hi) == IF lo < hi THEN <<lo>> \o for_range(lo + 1, hi) ELSE <<>>

\* The slots clear() runs the destructor on, in order.
clear_destroyed ==
    IF count > 0
    THEN IF front_index < back_index
         THEN for_range(front_index, back_index)
         ELSE for_range(front_index, capacity) \o for_range(first_index, back_index)
    ELSE <<>>

\* contains(value).  The straight branch compares array[index], index being the
\* loop variable.  The wrapped branch compares array[i] in both loops: i is not
\* the loop variable but a name of the enclosing scope, which the header does
\* not declare (as written the function does not compile); i is therefore an
\* input here, the value that name holds in a program that declares it.
contains(value, i) ==
    IF empty
    THEN FALSE
    ELSE IF front_index < back_index
         THEN \E k \in 1..Len(for_range(front_index, back_index)) :
                  array[for_range(front_index, back_index)[k]] = value
         ELSE \/ \E k \in 1..Len(for_range(front_index, capacity)) :
                     array[i] = value
              \/ \E k \in 1..Len(for_range(first_index, back_index)) :
                     array[i] = value

\* The values of the outside name i: the slots of the array, and capacity for
\* every value past the array.
OutsideIndexes == 0..capacity

\* What a call of contains(value) can end in: "true" or "false" for the value
\* returned.  Reading array[i] past the array in the wrapped branch is
\* undefined: the read can kill the process ("segfault") or hand back any
\* word, so that either answer can come back.
contains_outcomes(value, i) ==
    IF ~empty /\ ~(front_index < back_index) /\ i > last_index
    THEN {"true", "false", "segfault"}
    ELSE {IF contains(value, i) THEN "true" ELSE "false"}

----------------------------------------------------------------------------
\* circular_deque_iterator: an owner and an index.

this_deque == "deque"

iterator(owner, index) == [owner |-> owner, index |-> index]

\* operator*: the slot it reads, and the content of the slot.
operator_deref_slot(it) == it.index

operator_deref(it) == array[operator_deref_slot(it)]

\* operator++ and operator--.
operator_increment(it) == [it EXCEPT !.index = next_back_index(it.index)]

mutant_operator_decrement(it) == [it EXCEPT !.index = previous_front_index(it.index)]

operator_decrement(it) == [it EXCEPT !.index = previous_back_index(it.index)]

\* operator== and operator!=.
mutant_operator_eq(a, b) == (a.index = b.index)

operator_eq(a, b) == (a.index = b.index) /\ (a.owner = b.owner)

operator_ne(a, b) == (a.index # b.index) \/ (a.owner # b.owner)

begin == iterator(this_deque, begin_index)

end == iterator(this_deque, end_index)

\* std::reverse_iterator<iterator>: it wraps a base iterator; dereference reads
\* through a decremented copy of the base, ++ decrements the base, and base()
\* returns a copy of the base.  Its own == and != are ill-formed for this
\* iterator (operator== and operator!= take a non-const lvalue reference, which
\* the temporaries returned by base() cannot bind to), so they are not modelled.
reverse_iterator(base) == [base |-> base]

reverse_deref_slot(rit) == operator_deref_slot(operator_decrement(rit.base))

reverse_increment(rit) == [base |-> operator_decrement(rit.base)]

reverse_base(rit) == rit.base

rbegin == reverse_iterator(iterator(this_deque, begin_index))

rend == reverse_iterator(iterator(this_deque, end_index))

\* The slots read by  for (it = first; it != last; ++it) *it;
RECURSIVE forward_slots(_, _)
forward_slots(it, last) ==
    IF operator_ne(it, last)
    THEN <<operator_deref_slot(it)>> \o forward_slots(operator_increment(it), last)
    ELSE <<>>

\* The slots read by a traversal with reverse iterators.  The loop
\*   for (rit = rbegin(); rit != rend(); ++rit) *rit;
\* cannot be built from the header; the one that can copies the two bases into
\* named iterators and compares those with the iterator's own operator!=:
\*   for (rit = rbegin(), last = rend(); ; ++rit)
\*     { b = rit.base(); e = last.base(); if (!(b != e)) break; *rit; }
RECURSIVE reverse_slots(_, _)
reverse_slots(rit, last) ==
    IF operator_ne(reverse_base(rit), reverse_base(last))
    THEN <<reverse_deref_slot(rit)>> \o reverse_slots(reverse_increment(rit), last)
    ELSE <<>>

\* The values the two traversals of the whole deque yield (the reverse one
\* written with the bases compared, as above).
forward_iteration == [k \in 1..Len(forward_slots(begin, end)) |-> array[forward_slots(begin, end)[k]]]

reverse_iteration == [k \in 1..Len(reverse_slots(rbegin, rend)) |-> array[reverse_slots(rbegin, rend)[k]]]

----------------------------------------------------------------------------
\* Initial state: a default-constructed deque of some capacity > 1.

NoOp == [op |-> "none", value |-> default_value, slot |-> 0, destroyed |-> <<>>]

\* A default-constructed iterator: no owner, index 0.
default_iterator == [owner |-> "nullptr", index |-> 0]

\* A newly constructed deque, as a record of its data members.
constructed ==
    [count |-> 0,
     back_index |-> initial_back_index,
     front_index |-> initial_front_index,
     array |-> [i \in 0..(capacity - 1) |-> default_value]]

Init ==
    /\ capacity \in Capacities
    /\ count = 0
    /\ back_index = initial_back_index
    /\ front_index = initial_front_index
    /\ array = [i \in 0..(capacity - 1) |-> default_value]
    /\ ref = <<>>
    /\ pushes = 0
    /\ pops = 0
    /\ lastOp = NoOp
    /\ outcome = "ok"
    /\ iters = [a |-> default_iterator, b |-> default_iterator]
    /\ fresh = constructed

----------------------------------------------------------------------------
\* The member functions applied to a deque given as a record d.

record_push_back(d, value) ==
    [d EXCEPT !.array[d.back_index] = value,
              !.back_index = next_back_index(d.back_index),
              !.count = d.count + 1]

record_push_front(d, value) ==
    [d EXCEPT !.array[d.front_index] = value,
              !.front_index = next_front_index(d.front_index),
              !.count = d.count + 1]

record_pop_back(d) ==
    [d EXCEPT !.back_index = previous_back_index(d.back_index),
              !.count = d.count - 1]

record_pop_front(d) ==
    [d EXCEPT !.front_index = previous_front_index(d.front_index),
              !.count = d.count - 1]

record_size(d) == d.count

record_back(d) == d.array[previous_back_index(d.back_index)]

record_front(d) == d.array[previous_front_index(d.front_index)]

----------------------------------------------------------------------------
\* Mutations.

push_back(value) ==
    /\ outcome = "ok"
    /\ ~full
    /\ pushes < MaxPushes
    /\ array' = [array EXCEPT ![back_index] = value]
    /\ back_index' = next_back_index(back_index)
    /\ count' = count + 1
    /\ ref' = Append(ref, value)
    /\ pushes' = pushes + 1
    /\ lastOp' = [op |-> "push_back", value |-> value, slot |-> back_index,
                  destroyed |-> <<>>]
    /\ fresh' = record_push_back(fresh, value)
    /\ UNCHANGED <<outcome, iters, capacity, front_index, pops>>

mutant_push_front(value) ==
    /\ outcome = "ok"
    /\ ~full
    /\ pushes < MaxPushes
    /\ array' = [array EXCEPT ![front_index] = value]
    /\ front_index' = previous_front_index(front_index)
    /\ count' = count + 1
    /\ ref' = <<value>> \o ref
    /\ pushes' = pushes + 1
    /\ lastOp' = [op |-> "push_front", value |-> value, slot |-> front_index,
                  destroyed |-> <<>>]
    /\ fresh' = record_push_front(fresh, value)
    /\ UNCHANGED <<outcome, iters, capacity, back_index, pops>>

push_front(value) ==
    /\ outcome = "ok"
    /\ ~full
    /\ pushes < MaxPushes
    /\ array' = [array EXCEPT ![front_index] = value]
    /\ front_index' = next_front_index(front_index)
    /\ count' = count + 1
    /\ ref' = <<value>> \o ref
    /\ pushes' = pushes + 1
    /\ lastOp' = [op |-> "push_front", value |-> value, slot |-> front_index,
                  destroyed |-> <<>>]
    /\ fresh' = record_push_front(fresh, value)
    /\ UNCHANGED <<outcome, iters, capacity, back_index, pops>>

mutant_pop_back ==
    /\ outcome = "ok"
    /\ ~empty
    /\ back_index' = previous_back_index(back_index)
    /\ ref' = SubSeq(ref, 1, Len(ref) - 1)
    /\ pops' = pops + 1
    /\ lastOp' = [op |-> "pop_back", value |-> default_value, slot |-> back_index,
                  destroyed |-> <<back_index>>]
    /\ fresh' = record_pop_back(fresh)
    /\ UNCHANGED <<outcome, iters, capacity, front_index, array, pushes, count>>

pop_back ==
    /\ outcome = "ok"
    /\ ~empty
    /\ back_index' = previous_back_index(back_index)
    /\ count' = count - 1
    /\ ref' = SubSeq(ref, 1, Len(ref) - 1)
    /\ pops' = pops + 1
    /\ lastOp' = [op |-> "pop_back", value |-> default_value, slot |-> back_index,
                  destroyed |-> <<back_index>>]
    /\ fresh' = record_pop_back(fresh)
    /\ UNCHANGED <<outcome, iters, capacity, front_index, array, pushes>>

mutant_pop_front ==
    /\ outcome = "ok"
    /\ ~empty
    /\ front_index' = next_front_index(front_index)
    /\ count' = count - 1
    /\ ref' = Tail(ref)
    /\ pops' = pops + 1
    /\ lastOp' = [op |-> "pop_front", value |-> default_value, slot |-> front_index,
                  destroyed |-> <<front_index>>]
    /\ fresh' = record_pop_front(fresh)
    /\ UNCHANGED <<outcome, iters, capacity, back_index, array, pushes>>

pop_front ==
    /\ outcome = "ok"
    /\ ~empty
    /\ front_index' = previous_front_index(front_index)
    /\ count' = count - 1
    /\ ref' = Tail(ref)
    /\ pops' = pops + 1
    /\ lastOp' = [op |-> "pop_front", value |-> default_value, slot |-> front_index,
                  destroyed |-> <<front_index>>]
    /\ fresh' = record_pop_front(fresh)
    /\ UNCHANGED <<outcome, iters, capacity, back_index, array, pushes>>

mutant_clear ==
    /\ outcome = "ok"
    /\ count' = 0
    /\ ref' = <<>>
    /\ pushes' = 0
    /\ pops' = 0
    /\ lastOp' = [op |-> "clear", value |-> default_value, slot |-> 0,
                  destroyed |-> clear_destroyed]
    /\ fresh' = constructed
    /\ UNCHANGED <<outcome, iters, capacity, array, back_index, front_index>>

clear ==
    /\ outcome = "ok"
    /\ count' = (IF count > 0 THEN 0 ELSE count)
    /\ back_index' = initial_back_index
    /\ front_index' = initial_front_index
    /\ ref' = <<>>
    /\ pushes' = 0
    /\ pops' = 0
    /\ lastOp' = [op |-> "clear", value |-> default_value, slot |-> 0,
                  destroyed |-> clear_destroyed]
    /\ fresh' = constructed
    /\ UNCHANGED <<outcome, iters, capacity, array>>

\* A call whose assert fails: the program is aborted there, before the
\* statements that follow the assert.
assertion_failed(call) ==
    /\ outcome = "ok"
    /\ outcome' = "assertion_failed"
    /\ lastOp' = [op |-> call, value |-> default_value, slot |-> 0, destroyed |-> <<>>]
    /\ UNCHANGED <<capacity, count, back_index, front_index, array, ref, pushes, pops,
                   iters, fresh>>

mutant_push_back_asserts ==
    /\ outcome = "ok"
    /\ full
    /\ array' = [array EXCEPT ![back_index] = default_value + 1]
    /\ back_index' = next_back_index(back_index)
    /\ outcome' = "assertion_failed"
    /\ lastOp' = [op |-> "assert(push_back)", value |-> default_value, slot |-> 0,
                  destroyed |-> <<>>]
    /\ UNCHANGED <<capacity, count, front_index, ref, pushes, pops, iters, fresh>>

\* push_back and push_front on a full deque: assert(!this->full()) fails.
push_back_asserts == full /\ assertion_failed("assert(push_back)")

push_front_asserts == full /\ assertion_failed("assert(push_front)")

\* pop_back, pop_front, back and front on an empty deque:
\* assert(!this->empty()) fails.
pop_back_asserts == empty /\ assertion_failed("assert(pop_back)")

pop_front_asserts == empty /\ assertion_failed("assert(pop_front)")

back_asserts == empty /\ assertion_failed("assert(back)")

front_asserts == empty /\ assertion_failed("assert(front)")

Next ==
    \/ \E value \in Values : push_back(value)
    \/ \E value \in Values : push_front(value)
    \/ pop_back
    \/ pop_front
    \/ clear
    \/ push_back_asserts
    \/ push_front_asserts
    \/ pop_back_asserts
    \/ pop_front_asserts
    \/ back_asserts
    \/ front_asserts

Spec == Init /\ [][Next]_vars

----------------------------------------------------------------------------
\* The caller's two iterators.  An iterator is default-constructed, or taken
\* from begin() or end() of this deque or of a second deque of the same type
\* that stays as constructed, and then stepped, compared and dereferenced.

other_deque == "other"

IterNames == {"a", "b"}

\* begin() and end() of the second deque.
other_begin == iterator(other_deque, previous_front_index(initial_front_index))

other_end == iterator(other_deque, initial_back_index)

iterator_step(x, op, it) ==
    /\ outcome = "ok"
    /\ iters' = [iters EXCEPT ![x] = it]
    /\ lastOp' = [op |-> op, value |-> default_value, slot |-> 0, destroyed |-> <<>>]
    /\ UNCHANGED <<capacity, count, back_index, front_index, array, ref, pushes, pops,
                   outcome, fresh>>

it_default(x) == iterator_step(x, "iterator()", default_iterator)

it_begin(x) == iterator_step(x, "begin", begin) \/ iterator_step(x, "begin", other_begin)

it_end(x) == iterator_step(x, "end", end) \/ iterator_step(x, "end", other_end)

it_increment(x) == iterator_step(x, "operator++", operator_increment(iters[x]))

it_decrement(x) == iterator_step(x, "operator--", operator_decrement(iters[x]))

\* a == b and a != b, both results recorded.
it_compare ==
    /\ outcome = "ok"
    /\ lastOp' = [op |-> "compare", value |-> default_value, slot |-> 0,
                  destroyed |-> <<>>,
                  eq |-> operator_eq(iters.a, iters.b),
                  ne |-> operator_ne(iters.a, iters.b)]
    /\ UNCHANGED <<capacity, count, back_index, front_index, array, ref, pushes, pops,
                   outcome, iters, fresh>>

\* *it.  operator* has no assert: with an owner it returns the content of the
\* slot at its index, whatever the slot; the second deque's slots all hold the
\* default value.  Without an owner it reads through a null pointer, which
\* either ends the program or yields some value.
it_deref(x) ==
    /\ outcome = "ok"
    /\ \/ /\ iters[x].owner = this_deque
          /\ outcome' = "ok"
          /\ lastOp' = [op |-> "operator*", value |-> operator_deref(iters[x]),
                        slot |-> iters[x].index, destroyed |-> <<>>, it |-> iters[x]]
       \/ /\ iters[x].owner = other_deque
          /\ outcome' = "ok"
          /\ lastOp' = [op |-> "operator*", value |-> default_value,
                        slot |-> iters[x].index, destroyed |-> <<>>, it |-> iters[x]]
       \/ /\ iters[x].owner = "nullptr"
          /\ \/ /\ outcome' = "segfault"
                /\ lastOp' = [op |-> "operator*", value |-> default_value,
                              slot |-> iters[x].index, destroyed |-> <<>>,
                              it |-> iters[x]]
             \/ /\ outcome' = "ok"
                /\ \E value \in Values :
                       lastOp' = [op |-> "operator*", value |-> value,
                                  slot |-> iters[x].index, destroyed |-> <<>>,
                                  it |-> iters[x]]
    /\ UNCHANGED <<capacity, count, back_index, front_index, array, ref, pushes, pops,
                   iters, fresh>>

\* The deque is filled by push_back of one value that differs from the
\* default; what the iterators do does not depend on the values pushed.
NextIter ==
    \/ push_back(MaxValue)
    \/ \E x \in IterNames : it_default(x)
    \/ \E x \in IterNames : it_begin(x)
    \/ \E x \in IterNames : it_end(x)
    \/ \E x \in IterNames : it_increment(x)
    \/ \E x \in IterNames : it_decrement(x)
    \/ it_compare
    \/ \E x \in IterNames : it_deref(x)

SpecIter == Init /\ [][NextIter]_vars

----------------------------------------------------------------------------
\* Two fixed call sequences on a fresh deque.  The place in a sequence is
\* given by the calls made so far (pushes, pops).
\*   capacity 4: push_back x4, pop_front x2, push_back x2, any values;
\*   capacity 3: push_back(1); push_back(2); push_front(0); pop_back();
\*               push_back(9).

InitScenario == Init /\ capacity \in {3, 4}

Scenario4 ==
    /\ capacity = 4
    /\ \/ pushes < 4 /\ pops = 0 /\ \E value \in Values : push_back(value)
       \/ pushes = 4 /\ pops < 2 /\ pop_front
       \/ pushes \in {4, 5} /\ pops = 2 /\ \E value \in Values : push_back(value)

Scenario3 ==
    /\ capacity = 3
    /\ \/ pushes = 0 /\ pops = 0 /\ push_back(1)
       \/ pushes = 1 /\ pops = 0 /\ push_back(2)
       \/ pushes = 2 /\ pops = 0 /\ push_front(0)
       \/ pushes = 3 /\ pops = 0 /\ pop_back
       \/ pushes = 3 /\ pops = 1 /\ push_back(9)

NextScenario == Scenario4 \/ Scenario3

SpecScenario == InitScenario /\ [][NextScenario]_vars

----------------------------------------------------------------------------
\* Vocabulary of the properties.

\* One ring-forward step: i -> i+1, with capacity-1 -> 0.
RingStep(i, k) == (i + k) % capacity

\* The live slots: the count slots from the front element's slot ring-forward.
LiveSlots == { RingStep(front_slot, k) : k \in 0..(count - 1) }

\* The live slots in front-to-back order, and their content.
LiveSeq == [k \in 1..count |-> RingStep(front_slot, k - 1)]

LiveValues == [k \in 1..count |-> array[LiveSeq[k]]]

SeqRange(s) == { s[k] : k \in 1..Len(s) }

Reverse(s) == [k \in 1..Len(s) |-> s[Len(s) + 1 - k]]

\* The live range wraps past index capacity-1.
Wrapped == count > 0 /\ back_slot < front_slot

----------------------------------------------------------------------------
\* C1: forward iteration from begin() to end() yields the surviving elements
\* in front-to-back order, the sequence of the reference deque, for every
\* size 0..capacity, the full deque included.
C1_ForwardIterationIsReference == forward_iteration = ref

\* C2: size() is the number of pushes minus the number of pops, it lies in
\* 0..capacity, full() holds exactly when size() = capacity and empty()
\* exactly when size() = 0.
C2_SizeCountsPushesMinusPops ==
    /\ size = pushes - pops
    /\ 0 <= size /\ size <= capacity
    /\ full <=> (count = capacity)
    /\ empty <=> (count = 0)

\* C2 witness: a full deque after more pushes than the capacity and some pops.
C2_Witness == full /\ pushes > capacity /\ pops > 0 /\ lastOp.op # "clear"

\* C3: in a non-empty state the slot of back() is count-1 ring-forward steps
\* after the slot of front(), and the count slots from front() hold the
\* surviving values front to back; in every state
\* back_index = (front_index + 1 + count) mod capacity, and both cursors are
\* in 0..capacity-1.
C3_LiveWindowInvariant ==
    /\ count > 0 => /\ RingStep(front_slot, count - 1) = back_slot
                    /\ LiveValues = ref
    /\ back_index = (front_index + 1 + count) % capacity
    /\ back_index \in 0..(capacity - 1)
    /\ front_index \in 0..(capacity - 1)

\* C3 witness: a live range of at least two elements that wraps, not full.
C3_Witness == Wrapped /\ count >= 2 /\ ~full /\ pops > 0

\* C4: right after push_back(v), back() returns v; right after push_front(v),
\* front() returns v; also when the written slot is capacity-1 or 0.
C4_PushThenReadBack ==
    /\ lastOp.op = "push_back" => back = lastOp.value
    /\ lastOp.op = "push_front" => front = lastOp.value

\* C4 witness: push_back has written slot capacity-1 and the cursor wrapped
\* to 0, onto a deque that held another value at its back.
C4_Witness ==
    /\ lastOp.op = "push_back"
    /\ lastOp.slot = capacity - 1
    /\ back_index = 0
    /\ count >= 2
    /\ ref[Len(ref) - 1] # lastOp.value

\* C5: pop_back() takes one off size() and, if an element is left, back() is
\* the element that was second from the back and front() is as before;
\* pop_front() symmetrically.
C5_PopExposesNext ==
    [][ /\ pop_back => /\ size' = size - 1
                       /\ size' > 0 => /\ back' = ref[Len(ref) - 1]
                                       /\ front' = front
        /\ pop_front => /\ size' = size - 1
                        /\ size' > 0 => /\ front' = ref[2]
                                        /\ back' = back ]_vars

\* C5 witness: pop_front has left a deque whose new front differs from its
\* back, with the front cursor wrapped from capacity-1 to 0.
C5_Witness ==
    /\ lastOp.op = "pop_front"
    /\ lastOp.slot = capacity - 1
    /\ count >= 2
    /\ front # back

\* C6: contains(v) is true exactly when v equals a live element; values left
\* in non-live slots never make it true (whatever the outside name i holds).
C6_ContainsIsMembership ==
    \A v \in Values : \A i \in OutsideIndexes :
        contains_outcomes(v, i) = {IF v \in SeqRange(ref) THEN "true" ELSE "false"}

\* C7: after clear() the deque has size() = 0, back_index = capacity/2 and
\* front_index = capacity/2 - 1, as a freshly constructed deque has.
C7_ClearRestoresInitial ==
    lastOp.op = "clear" =>
        /\ size = 0
        /\ back_index = capacity \div 2
        /\ front_index = (capacity \div 2) - 1

\* C7 witness: clear() has run on a non-empty deque whose cursors were away
\* from their initial places (it destroyed slot 0).
C7_Witness ==
    /\ lastOp.op = "clear"
    /\ Len(lastOp.destroyed) > 0
    /\ 0 \in SeqRange(lastOp.destroyed)

\* C8: clear() runs the destructor on exactly the slots that are live before
\* the call, each once.
C8_ClearDestroysLiveSlots ==
    [][ clear => /\ Len(lastOp'.destroyed) = count
                 /\ SeqRange(lastOp'.destroyed) = LiveSlots ]_vars

\* C9: pop_back() runs the destructor on exactly the slot back() refers to,
\* and pop_front() on exactly the slot front() refers to.
C9_PopDestroysBoundarySlot ==
    [][ /\ pop_back => lastOp'.destroyed = <<back_slot>>
        /\ pop_front => lastOp'.destroyed = <<front_slot>> ]_vars

\* C10: reverse iteration from rbegin() to rend() yields the live elements
\* back to front and reads live slots only (the traversal being the one that
\* compares the bases of the two reverse iterators).
C10_ReverseIterationIsReversedReference ==
    /\ reverse_iteration = Reverse(ref)
    /\ SeqRange(reverse_slots(rbegin, rend)) \subseteq LiveSlots

\* C11: capacity 4, after push_back x4 (a,b,c,d), pop_front x2, push_back x2
\* (e,f): size() = 4, full() holds and forward iteration yields c,d,e,f.
C11_WraparoundScenario ==
    (capacity = 4 /\ pushes = 6 /\ pops = 2) =>
        /\ size = 4
        /\ full
        /\ Len(ref) = 4
        /\ forward_iteration = ref

\* C12: capacity 3, after push_back(1); push_back(2); push_front(0): size() = 3,
\* full(), front() = 0, back() = 2, iteration [0,1,2]; after pop_back():
\* size() = 2, back() = 1; after push_back(9): full(), iteration [0,1,9].
C12_ConcreteScenario ==
    /\ (capacity = 3 /\ pushes = 3 /\ pops = 0) =>
           /\ size = 3 /\ full /\ front = 0 /\ back = 2
           /\ forward_iteration = <<0, 1, 2>>
    /\ (capacity = 3 /\ pushes = 3 /\ pops = 1) =>
           /\ size = 2 /\ back = 1
    /\ (capacity = 3 /\ pushes = 4 /\ pops = 1) =>
           /\ full
           /\ forward_iteration = <<0, 1, 9>>

\* C13 as stated: for capacity > 2, count = 0 exactly when back_index is the
\* ring-successor of front_index, and count = capacity exactly when the
\* cursors are adjacent the other way round (front_index the ring-successor
\* of back_index), so that empty and full never share a cursor layout.
C13_CursorsTellEmptyFromFull ==
    capacity > 2 =>
        /\ (count = 0) <=> (back_index = RingStep(front_index, 1))
        /\ (count = capacity) <=> (front_index = RingStep(back_index, 1))

\* C13 amended: for capacity > 2, back_index is the ring-successor of
\* front_index exactly when count is 0 or capacity (the empty and the full
\* deque have the same cursor layout and differ in count only), and the cursors
\* are adjacent the other way round (front_index the ring-successor of
\* back_index) exactly when count = capacity - 2.
C13_CursorAdjacencyByCount ==
    capacity > 2 =>
        /\ (back_index = RingStep(front_index, 1)) <=> (count \in {0, capacity})
        /\ (front_index = RingStep(back_index, 1)) <=> (count = capacity - 2)

\* C13 witness: a full deque of capacity > 2, reached through pops, whose
\* cursors are laid out as those of an empty deque.
C13_Witness ==
    /\ capacity > 2
    /\ full
    /\ pops > 0
    /\ back_index = RingStep(front_index, 1)

\* C14: in an empty state begin() = end(); in a non-empty state begin() denotes
\* the slot of front(), the first live slot, and end() denotes back_index, one
\* ring-step past the slot of back().
C14_BeginEndDenoteWindow ==
    /\ empty => operator_eq(begin, end)
    /\ ~empty => /\ begin.owner = this_deque
                 /\ end.owner = this_deque
                 /\ begin.index = front_slot
                 /\ begin.index = LiveSeq[1]
                 /\ operator_deref(begin) = ref[1]
                 /\ end.index = back_index
                 /\ end.index = RingStep(back_slot, 1)
                 /\ end.index = RingStep(LiveSeq[count], 1)

\* C14 witness: a deque emptied by pops with its cursors away from their
\* initial places.
C14_Witness ==
    /\ empty
    /\ lastOp.op \in {"pop_back", "pop_front"}
    /\ back_index # capacity \div 2
    /\ operator_eq(begin, end)

\* The slots other than i keep their content over a step.
OtherSlotsKept(i) == \A j \in (0..(capacity - 1)) \ {i} : array'[j] = array[j]

\* The live elements of the state keep slot and value over a step, those in
\* the set gone excepted.
LiveKept(gone) ==
    \A j \in LiveSlots \ gone : j \in LiveSlots' /\ array'[j] = array[j]

\* C19: push_back writes exactly the slot at the old back_index, moves
\* back_index one ring-step forward and adds 1 to count; pop_back moves
\* back_index one ring-step backward and takes 1 off count; push_front writes
\* exactly the slot at the old front_index, moves front_index one ring-step
\* backward and adds 1 to count; pop_front moves front_index one ring-step
\* forward and takes 1 off count.  The opposite cursor is unchanged and every
\* other live element keeps its value and its slot.
C19_MutationsTouchOwnEndOnly ==
    [][ /\ \A v \in Values :
              push_back(v) => /\ array'[back_index] = v
                              /\ OtherSlotsKept(back_index)
                              /\ back_index' = RingStep(back_index, 1)
                              /\ count' = count + 1
                              /\ front_index' = front_index
                              /\ LiveKept({})
        /\ \A v \in Values :
              push_front(v) => /\ array'[front_index] = v
                               /\ OtherSlotsKept(front_index)
                               /\ front_index' = RingStep(front_index, capacity - 1)
                               /\ count' = count + 1
                               /\ back_index' = back_index
                               /\ LiveKept({})
        /\ pop_back => /\ back_index' = RingStep(back_index, capacity - 1)
                       /\ count' = count - 1
                       /\ front_index' = front_index
                       /\ LiveKept({back_slot})
        /\ pop_front => /\ front_index' = RingStep(front_index, 1)
                        /\ count' = count - 1
                        /\ back_index' = back_index
                        /\ LiveKept({front_slot}) ]_vars

\* C19 witness: push_front has written slot 0, its cursor wrapping to
\* capacity-1, on a deque that holds other elements.
C19_Witness ==
    /\ lastOp.op = "push_front"
    /\ lastOp.slot = 0
    /\ front_index = capacity - 1
    /\ count >= 2

\* The observable results of the deque and of the newly constructed deque
\* given the same calls agree: size, cursors, and front() and back() when
\* there is an element.
SameAsFresh ==
    /\ size = record_size(fresh)
    /\ back_index = fresh.back_index
    /\ front_index = fresh.front_index
    /\ ~empty => /\ front = record_front(fresh)
                 /\ back = record_back(fresh)

\* C15: clear() on an empty deque leaves size() = 0; clear() after clear()
\* leaves count and cursors as the first left them; and the pushes and pops
\* that follow give the same size, front(), back() and cursors as they give
\* on a freshly constructed deque.
C15_ClearIsIdempotentAndNeutral ==
    [][ /\ (clear /\ empty) => size' = 0
        /\ (clear /\ lastOp.op = "clear") =>
               /\ count' = count
               /\ back_index' = back_index
               /\ front_index' = front_index
        /\ SameAsFresh' ]_vars

\* C15 witness: clear() has run on an empty deque (it destroyed nothing) that
\* was not fresh: its storage holds values a fresh deque does not.
C15_Witness ==
    /\ lastOp.op = "clear"
    /\ lastOp.destroyed = <<>>
    /\ array # fresh.array
    /\ SameAsFresh

\* The calls, named as lastOp names them.
PushCalls == {"push_back", "push_front", "assert(push_back)", "assert(push_front)"}

EmptyCalls == {"pop_back", "pop_front", "assert(pop_back)", "assert(pop_front)",
               "assert(back)", "assert(front)"}

\* C16: in a debug build a push on a full deque and a pop, front() or back() on
\* an empty deque end in the assertion failure, with count, both cursors and
\* all slots as they were before the call.
C16_ViolationsAbortBeforeAnyChange ==
    [][ /\ (full /\ lastOp'.op \in PushCalls) =>
               (outcome' = "assertion_failed" /\ UNCHANGED deque_vars)
        /\ (empty /\ lastOp'.op \in EmptyCalls) =>
               (outcome' = "assertion_failed" /\ UNCHANGED deque_vars)
        /\ (outcome' = "assertion_failed" /\ lastOp'.op \in PushCalls) => full
        /\ (outcome' = "assertion_failed" /\ lastOp'.op \in EmptyCalls) => empty ]_vars

\* C16 witness: push_back on a full deque has ended in the assertion failure.
C16_Witness ==
    /\ outcome = "assertion_failed"
    /\ lastOp.op = "assert(push_back)"
    /\ full
    /\ pops > 0

\* An iterator that may not be dereferenced: it has no owner, or its index is
\* not a live slot of its owner (the second deque has no live slot), or it is
\* equal to end().
InvalidIterator(it) ==
    \/ it.owner = "nullptr"
    \/ it.owner = other_deque
    \/ it.owner = this_deque /\ (it.index \notin LiveSlots \/ operator_eq(it, end))

\* C17: in a debug build, dereferencing an invalid iterator ends in the
\* assertion failure instead of returning the content of a slot.
C17_InvalidDereferenceAsserts ==
    (lastOp.op = "operator*" /\ InvalidIterator(lastOp.it)) =>
        outcome = "assertion_failed"

\* C18: a == b exactly when the two have the same index and the same owner,
\* a != b is the negation of a == b, and iterators of different owners (two
\* deques, or a deque and none) are never equal, whatever their indices.
C18_EqualityIsIndexAndOwner ==
    lastOp.op = "compare" =>
        /\ lastOp.eq <=> (iters.a.index = iters.b.index /\ iters.a.owner = iters.b.owner)
        /\ lastOp.ne <=> ~lastOp.eq
        /\ (iters.a.owner # iters.b.owner) => ~lastOp.eq

\* C18 witness: two stepped iterators at the same index, one of this deque and
\* one of the second deque, have been compared.
C18_Witness ==
    /\ lastOp.op = "compare"
    /\ iters.a.owner = this_deque
    /\ iters.b.owner = other_deque
    /\ iters.a.index = iters.b.index
    /\ iters.a.index = capacity - 1
    /\ lastOp.ne

\* n applications of operator++, and of operator--.
RECURSIVE IncrementTimes(_, _)
IncrementTimes(it, n) ==
    IF n = 0 THEN it ELSE IncrementTimes(operator_increment(it), n - 1)

RECURSIVE DecrementTimes(_, _)
DecrementTimes(it, n) ==
    IF n = 0 THEN it ELSE DecrementTimes(operator_decrement(it), n - 1)

\* C20: ++ takes index i to (i+1) mod capacity and -- takes it to
\* (i-1+capacity) mod capacity; each undoes the other; capacity steps of
\* either return the iterator to where it was; and neither changes the owner,
\* the other iterator or the deque.
C20_IncrementDecrementInverse ==
    [][ \A x \in IterNames :
          /\ it_increment(x) =>
                 /\ iters'[x].index = (iters[x].index + 1) % capacity
                 /\ iters'[x].owner = iters[x].owner
                 /\ operator_decrement(iters'[x]) = iters[x]
                 /\ IncrementTimes(iters[x], capacity) = iters[x]
                 /\ \A y \in IterNames \ {x} : iters'[y] = iters[y]
                 /\ UNCHANGED deque_vars
          /\ it_decrement(x) =>
                 /\ iters'[x].index = (iters[x].index - 1 + capacity) % capacity
                 /\ iters'[x].owner = iters[x].owner
                 /\ operator_increment(iters'[x]) = iters[x]
                 /\ DecrementTimes(iters[x], capacity) = iters[x]
                 /\ \A y \in IterNames \ {x} : iters'[y] = iters[y]
                 /\ UNCHANGED deque_vars ]_vars

\* C20 witness: operator-- has just run and left an iterator of a non-empty
\* deque at index capacity-1, the other iterator being at index 0.
C20_Witness ==
    /\ lastOp.op = "operator--"
    /\ iters.a = iterator(this_deque, capacity - 1)
    /\ iters.b = iterator(this_deque, 0)
    /\ count > 0

====
